---- MODULE Spec2Model ----
(***************************************************************************)
(* Model of k8s-metrics-changes: the identity keyer (metricKey), the       *)
(* snapshot indexer (the loop of loadMetrics), the differ (compareMetrics  *)
(* with its field comparators and compareLabelSlices) and the earlier,     *)
(* struct-keyed differ of src/main.go.                                     *)
(*                                                                         *)
(* Strings are sequences of chunks.  A chunk is a one-character string     *)
(* ("a", "_") where the bytes matter (identity keys, label names), or a    *)
(* longer literal whose inside is never inspected ("counter",             *)
(* "Help text changed."); "BQ" is the backquote character.  Concatenation *)
(* is \o, so fmt.Sprintf and strings.Join are computed, not assumed.       *)
(***************************************************************************)
EXTENDS Integers, Sequences, FiniteSets, TLC

VARIABLES pc, m, key, metrics, idx, metricMap, oldMetric, newMetric, changes,
          oldMetrics, newMetrics, old, new, call, todo, diffs, heap, ret

vars == <<pc, m, key, metrics, idx, metricMap, oldMetric, newMetric, changes,
          oldMetrics, newMetrics, old, new, call, todo, diffs, heap, ret>>

\* Value of a variable the running specification does not use.
None == <<>>

(***************************************************************************)
(* Bounds of the model.                                                    *)
(***************************************************************************)
\* Longest namespace / subsystem / name explored by the identity keyer.
MaxStrLen == 2
\* Longest decoded record sequence explored by the snapshot indexer.
MaxRecords == 3
\* Longest label list explored by the field comparators.
MaxLabels == 2
\* Number of metric identities the snapshots of the differ draw from.
NumKeys == 3

(***************************************************************************)
(* Strings                                                                 *)
(***************************************************************************)
\* Byte value of a one-character chunk (ASCII), the order of Go's string <.
Code(c) ==
  CASE c = "," -> 44
    [] c = "-" -> 45
    [] c = "0" -> 48
    [] c = "1" -> 49
    [] c = "2" -> 50
    [] c = "3" -> 51
    [] c = "4" -> 52
    [] c = "5" -> 53
    [] c = "6" -> 54
    [] c = "7" -> 55
    [] c = "8" -> 56
    [] c = "9" -> 57
    [] c = "_" -> 95
    [] c = "BQ" -> 96
    [] c = "a" -> 97
    [] c = "b" -> 98
    [] c = "c" -> 99

\* Go's < on strings: bytewise lexicographic, a proper prefix is smaller.
RECURSIVE StrLess(_, _)
StrLess(s, t) ==
  IF t = <<>> THEN FALSE
  ELSE IF s = <<>> THEN TRUE
  ELSE IF Head(s) = Head(t) THEN StrLess(Tail(s), Tail(t))
  ELSE Code(Head(s)) < Code(Head(t))

\* strings.Join(parts, sep)
RECURSIVE Join(_, _)
Join(parts, sep) ==
  IF parts = <<>> THEN <<>>
  ELSE IF Len(parts) = 1 THEN parts[1]
  ELSE parts[1] \o sep \o Join(Tail(parts), sep)

\* All strings over alphabet of length at most n.
StringsUpTo(alphabet, n) == UNION {[1..k -> alphabet] : k \in 0..n}

\* The set of elements of a sequence.
Range(s) == {s[i] : i \in DOMAIN s}

\* All orders in which a finite set can be enumerated (map iteration in Go
\* is in unspecified order).
Orders(S) ==
  {o \in [1..Cardinality(S) -> S] : \A i, j \in DOMAIN o : i # j => o[i] # o[j]}

(***************************************************************************)
(* type Metric (string-keyed program)                                      *)
(***************************************************************************)
\* A map value: nil reports the nil map, kv its entries (a nil map has none).
NilMap == [nil |-> TRUE, kv |-> <<>>]
MakeMap(f) == [nil |-> FALSE, kv |-> f]

\* The zero Metric but for its identity: what the decoder yields for a
\* document element that sets only name / subsystem / namespace.
Metric(namespace, subsystem, name) ==
  [Name |-> name, Subsystem |-> subsystem, Namespace |-> namespace,
   Help |-> <<>>, Type |-> <<>>, DeprecatedVersion |-> <<>>,
   StabilityLevel |-> <<>>, Labels |-> <<>>, Buckets |-> <<>>,
   Objectives |-> NilMap, AgeBuckets |-> 0, BufCap |-> 0, MaxAge |-> 0,
   ConstLabels |-> NilMap]

\* Mutant of metricKey: the subsystem is joined even when empty.
metricKeyNoSubsystemGuard(mt) ==
  LET parts1 == IF mt.Namespace # <<>> THEN <<mt.Namespace>> ELSE <<>>
      parts2 == Append(parts1, mt.Subsystem)
      parts3 == Append(parts2, mt.Name)
  IN  Join(parts3, <<"_">>)

\* func metricKey(m Metric) string
metricKey(mt) ==
  LET parts1 == IF mt.Namespace # <<>> THEN <<mt.Namespace>> ELSE <<>>
      parts2 == IF mt.Subsystem # <<>> THEN Append(parts1, mt.Subsystem)
                                       ELSE parts1
      parts3 == Append(parts2, mt.Name)
  IN  Join(parts3, <<"_">>)

(***************************************************************************)
(* SpecKey: the identity keyer applied to every triple of short strings.   *)
(***************************************************************************)
KeyAlphabet == {"a", "_"}
KeyStrings == StringsUpTo(KeyAlphabet, MaxStrLen)

InitKey ==
  /\ pc = "metricKey"
  /\ m \in {Metric(ns, ss, nm) : ns \in KeyStrings, ss \in KeyStrings,
                                  nm \in KeyStrings}
  /\ key = None
  /\ metrics = None /\ idx = None /\ metricMap = None
  /\ oldMetric = None /\ newMetric = None /\ changes = None
  /\ oldMetrics = None /\ newMetrics = None /\ old = None /\ new = None
  /\ call = None /\ todo = None /\ diffs = None /\ heap = None /\ ret = None

CallMetricKey ==
  /\ pc = "metricKey"
  /\ key' = metricKey(m)
  /\ pc' = "keyed"
  /\ UNCHANGED <<m, metrics, idx, metricMap, oldMetric, newMetric, changes,
                 oldMetrics, newMetrics, old, new, call, todo, diffs, heap, ret>>

NextKey == CallMetricKey

SpecKey == InitKey /\ [][NextKey]_vars

\* The non-empty members of a sequence of strings, in order.
NonEmpty(parts) == SelectSeq(parts, LAMBDA p : p # <<>>)

\* C6 as stated: the key is the "_"-join of only the non-empty components
\* among [namespace, subsystem, name]; an empty component, the name
\* included, contributes neither text nor a separator.
C6_KeyJoinsOnlyNonEmpty ==
  pc = "keyed" =>
    key = Join(NonEmpty(<<m.Namespace, m.Subsystem, m.Name>>), <<"_">>)

\* C6 amended: the key is the "_"-join of the non-empty components among
\* [namespace, subsystem] followed by the name, which is always joined: an
\* empty namespace or subsystem contributes nothing, an empty name still
\* brings the separator before it when a namespace or subsystem precedes it.
C6_KeyJoinsPrefixThenName ==
  pc = "keyed" =>
    LET prefix == NonEmpty(<<m.Namespace, m.Subsystem>>)
    IN  /\ m.Name # <<>> => key = Join(NonEmpty(<<m.Namespace, m.Subsystem, m.Name>>), <<"_">>)
        /\ (m.Name = <<>> /\ prefix # <<>>) => key = Join(prefix, <<"_">>) \o <<"_">>
        /\ (m.Name = <<>> /\ prefix = <<>>) => key = <<>>

\* C6 witness: a keyed triple with an empty name after a non-empty
\* namespace and an empty subsystem.
C6_Witness ==
  /\ pc = "keyed"
  /\ m.Name = <<>> /\ m.Namespace # <<>> /\ m.Subsystem = <<>>
  /\ key = m.Namespace \o <<"_">>

(***************************************************************************)
(* SpecLoad: the indexing loop of loadMetrics over a decoded sequence.     *)
(***************************************************************************)
\* Mutant of MapAssign: an existing entry is kept (first write wins).
MapAssignKeepFirst(mp, k, v) ==
  [x \in DOMAIN mp \cup {k} |-> IF x \in DOMAIN mp THEN mp[x] ELSE v]

\* metricMap[key] = metric
MapAssign(mp, k, v) ==
  [x \in DOMAIN mp \cup {k} |-> IF x = k THEN v ELSE mp[x]]

\* make(map[string]Metric)
EmptyMap == <<>>

\* Identities of the decoded records; three of them share the key "a_b".
LoadIdentities ==
  { <<<<"a">>, <<>>, <<"b">>>>,
    <<<<>>, <<"a">>, <<"b">>>>,
    <<<<>>, <<>>, <<"a", "_", "b">>>>,
    <<<<>>, <<>>, <<"b">>>> }

\* What yaml.Unmarshal can put in one element of metrics here.
LoadRecords ==
  {[Metric(id[1], id[2], id[3]) EXCEPT !.Help = h] :
     id \in LoadIdentities, h \in {<<"x">>, <<"y">>}}

InitLoad ==
  /\ pc = "index"
  /\ metrics \in UNION {[1..n -> LoadRecords] : n \in 0..MaxRecords}
  /\ idx = 0
  /\ metricMap = EmptyMap
  /\ m = None /\ key = None
  /\ oldMetric = None /\ newMetric = None /\ changes = None
  /\ oldMetrics = None /\ newMetrics = None /\ old = None /\ new = None
  /\ call = None /\ todo = None /\ diffs = None /\ heap = None /\ ret = None

\* One iteration of "for _, metric := range metrics".
IndexRecord ==
  /\ pc = "index"
  /\ idx < Len(metrics)
  /\ LET metric == metrics[idx + 1]
     IN  metricMap' = MapAssign(metricMap, metricKey(metric), metric)
  /\ idx' = idx + 1
  /\ UNCHANGED <<pc, m, key, metrics, oldMetric, newMetric, changes,
                 oldMetrics, newMetrics, old, new, call, todo, diffs, heap, ret>>

\* return metricMap, nil
LoadReturn ==
  /\ pc = "index"
  /\ idx = Len(metrics)
  /\ pc' = "loaded"
  /\ UNCHANGED <<m, key, metrics, idx, metricMap, oldMetric, newMetric,
                 changes, oldMetrics, newMetrics, old, new, call, todo, diffs,
                 heap, ret>>

NextLoad == IndexRecord \/ LoadReturn

SpecLoad == InitLoad /\ [][NextLoad]_vars

\* Position of the last record of s whose identity key is k.
LastWith(s, k) ==
  CHOOSE i \in DOMAIN s :
    /\ metricKey(s[i]) = k
    /\ \A j \in DOMAIN s : metricKey(s[j]) = k => j <= i

\* C7: the loaded map has exactly the identity keys that occur in the decoded
\* sequence, and under each key the last record in decode order with that
\* key, also when the records' triples differ.
C7_LastWriteWins ==
  pc = "loaded" =>
    /\ DOMAIN metricMap = {metricKey(metrics[i]) : i \in DOMAIN metrics}
    /\ \A k \in DOMAIN metricMap : metricMap[k] = metrics[LastWith(metrics, k)]

\* C7 witness: two records with different triples and the same key were
\* indexed, and the map holds the later one.
C7_Witness ==
  /\ pc = "loaded"
  /\ \E i, j \in DOMAIN metrics :
       /\ i < j
       /\ metricKey(metrics[i]) = metricKey(metrics[j])
       /\ <<metrics[i].Namespace, metrics[i].Subsystem, metrics[i].Name>>
            # <<metrics[j].Namespace, metrics[j].Subsystem, metrics[j].Name>>
       /\ j = LastWith(metrics, metricKey(metrics[j]))
       /\ metricMap[metricKey(metrics[j])] = metrics[j]
       /\ Cardinality(DOMAIN metricMap) < Len(metrics)

(***************************************************************************)
(* Field comparators of compareMetrics (string-keyed program)              *)
(***************************************************************************)
\* The decimal digits of a natural number, as %d prints them.
RECURSIVE Digits(_)
Digits(n) ==
  LET d == <<"0", "1", "2", "3", "4", "5", "6", "7", "8", "9">>[(n % 10) + 1]
  IN  IF n < 10 THEN <<d>> ELSE Append(Digits(n \div 10), d)

\* fmt's %d of an integer.
Itoa(n) == IF n < 0 THEN <<"-">> \o Digits(-n) ELSE Digits(n)

\* fmt.Sprintf("<Field> changed from `%s` to `%s`.", a, b), a and b already
\* formatted.
ChangedFromTo(field, a, b) ==
  <<field, " changed from ", "BQ">> \o a \o <<"BQ", " to ", "BQ">> \o b
    \o <<"BQ", ".">>

\* A float64 is one of the decoder's values; "NaN" is what .nan decodes to.
\* a != b on float64: a NaN differs from everything, itself included.
FloatNe(a, b) == a = "NaN" \/ b = "NaN" \/ a # b

\* func equalStringSlices(a, b []string) bool
equalStringSlices(a, b) ==
  IF Len(a) # Len(b) THEN FALSE
  ELSE \A i \in DOMAIN a : ~(a[i] # b[i])

\* func equalFloat64Slices(a, b []float64) bool
equalFloat64Slices(a, b) ==
  IF Len(a) # Len(b) THEN FALSE
  ELSE \A i \in DOMAIN a : ~FloatNe(a[i], b[i])

\* reflect.DeepEqual on two map values: both nil or both non-nil, the same
\* length, and equal values under the same keys.
DeepEqual(a, b) ==
  /\ a.nil = b.nil
  /\ DOMAIN a.kv = DOMAIN b.kv
  /\ \A k \in DOMAIN a.kv : a.kv[k] = b.kv[k]

\* sort.Strings: insertion of x into an ascending sequence, then the sort.
RECURSIVE InsertSorted(_, _)
InsertSorted(x, s) ==
  IF s = <<>> THEN <<x>>
  ELSE IF StrLess(Head(s), x) THEN <<Head(s)>> \o InsertSorted(x, Tail(s))
  ELSE <<x>> \o s

RECURSIVE SortStrings(_)
SortStrings(s) ==
  IF s = <<>> THEN <<>> ELSE InsertSorted(Head(s), SortStrings(Tail(s)))

\* Mutant of SortLabels: the collected labels are left in iteration order.
SortLabelsSkipped(s) == s

\* sort.Strings(added); sort.Strings(removed)
SortLabels(s) == SortStrings(s)

\* fmt.Sprintf("`%s`", label)
Quote(label) == <<"BQ">> \o label \o <<"BQ">>

\* The labels of order (an enumeration of a set) that are not in other,
\* quoted, in the order of enumeration: one "for label := range set" loop.
RECURSIVE QuotedMissing(_, _)
QuotedMissing(order, other) ==
  IF order = <<>> THEN <<>>
  ELSE IF Head(order) \notin other
       THEN <<Quote(Head(order))>> \o QuotedMissing(Tail(order), other)
       ELSE QuotedMissing(Tail(order), other)

\* func compareLabelSlices(oldLabels, newLabels []string) string, with the
\* orders in which the two range loops enumerate newSet and oldSet.
compareLabelSlices(oldLabels, newLabels, newOrder, oldOrder) ==
  LET oldSet == Range(oldLabels)
      newSet == Range(newLabels)
      added == SortLabels(QuotedMissing(newOrder, oldSet))
      removed == SortLabels(QuotedMissing(oldOrder, newSet))
      changes1 == IF Len(added) > 0
                  THEN << <<"Added labels: [">> \o Join(added, <<", ">>) \o <<"].">> >>
                  ELSE <<>>
      changes2 == IF Len(removed) > 0
                  THEN Append(changes1,
                         <<"Removed labels: [">> \o Join(removed, <<", ">>) \o <<"].">>)
                  ELSE changes1
  IN  IF Len(changes2) = 0
      THEN <<"Labels reordered: [">> \o Join(oldLabels, <<", ">>) \o <<"] -> [">>
             \o Join(newLabels, <<", ">>) \o <<"]">>
      ELSE Join(changes2, <<" <br> ">>)

\* The body of the matched branch of compareMetrics: the change list of an
\* (oldMetric, newMetric) pair.
FieldChanges(o, n, newOrder, oldOrder) ==
  LET c1 == IF o.Help # n.Help THEN << <<"Help text changed.">> >> ELSE <<>>
      c2 == IF o.Type # n.Type
            THEN Append(c1, ChangedFromTo("Type", o.Type, n.Type)) ELSE c1
      c3 == IF o.StabilityLevel # n.StabilityLevel
            THEN Append(c2, ChangedFromTo("Stability level", o.StabilityLevel,
                                          n.StabilityLevel))
            ELSE c2
      c4 == IF o.DeprecatedVersion # n.DeprecatedVersion
            THEN IF o.DeprecatedVersion = <<>>
                 THEN Append(c3, <<"Marked as deprecated in version ", "BQ">>
                                   \o n.DeprecatedVersion \o <<"BQ", ".">>)
                 ELSE IF n.DeprecatedVersion = <<>>
                 THEN Append(c3, <<"No longer marked as deprecated.">>)
                 ELSE Append(c3, ChangedFromTo("Deprecated version",
                                   o.DeprecatedVersion, n.DeprecatedVersion))
            ELSE c3
      c5 == IF o.AgeBuckets # n.AgeBuckets
            THEN Append(c4, ChangedFromTo("AgeBuckets", Itoa(o.AgeBuckets),
                                          Itoa(n.AgeBuckets)))
            ELSE c4
      c6 == IF o.BufCap # n.BufCap
            THEN Append(c5, ChangedFromTo("BufCap", Itoa(o.BufCap), Itoa(n.BufCap)))
            ELSE c5
      c7 == IF o.MaxAge # n.MaxAge
            THEN Append(c6, ChangedFromTo("MaxAge", Itoa(o.MaxAge), Itoa(n.MaxAge)))
            ELSE c6
      c8 == IF DeepEqual(o.ConstLabels, n.ConstLabels) = FALSE
            THEN Append(c7, <<"ConstLabels changed.">>) ELSE c7
      c9 == IF ~equalStringSlices(o.Labels, n.Labels)
            THEN Append(c8, compareLabelSlices(o.Labels, n.Labels, newOrder, oldOrder))
            ELSE c8
      c10 == IF ~equalFloat64Slices(o.Buckets, n.Buckets)
             THEN Append(c9, <<"Buckets changed.">>) ELSE c9
  IN  c10

(***************************************************************************)
(* SpecFields: the field comparators applied to one matched pair.          *)
(***************************************************************************)
LabelNames == {<<"a">>, <<"b">>}
LabelLists == UNION {[1..n -> LabelNames] : n \in 0..MaxLabels}
FloatValues == {"1", "2", "NaN"}
BucketLists == UNION {[1..n -> FloatValues] : n \in 0..2}
ConstLabelMaps ==
  {NilMap, MakeMap(<<>>), MakeMap("zone" :> "eu"), MakeMap("zone" :> "us"),
   MakeMap("tier" :> "eu"), MakeMap(("zone" :> "eu") @@ ("tier" :> "eu"))}

\* A decoded record with every optional field absent but the help, type and
\* stability level.
BaseMetric ==
  [Metric(<<>>, <<>>, <<"a">>) EXCEPT
     !.Help = <<"help">>, !.Type = <<"counter">>, !.StabilityLevel = <<"ALPHA">>]

\* BaseMetric with one field set to each of its explored values.
FieldValues ==
  {[BaseMetric EXCEPT !.Help = v] : v \in {<<>>, <<"other help">>}}
  \cup {[BaseMetric EXCEPT !.Type = v] : v \in {<<>>, <<"gauge">>}}
  \cup {[BaseMetric EXCEPT !.StabilityLevel = v] : v \in {<<>>, <<"STABLE">>}}
  \cup {[BaseMetric EXCEPT !.DeprecatedVersion = v] :
          v \in {<<>>, <<"1.30">>, <<"1.31">>}}
  \cup {[BaseMetric EXCEPT !.AgeBuckets = v] : v \in {0, 5}}
  \cup {[BaseMetric EXCEPT !.BufCap = v] : v \in {0, 12}}
  \cup {[BaseMetric EXCEPT !.MaxAge = v] : v \in {0, -3}}
  \cup {[BaseMetric EXCEPT !.ConstLabels = v] : v \in ConstLabelMaps}
  \cup {[BaseMetric EXCEPT !.Labels = v] : v \in LabelLists}
  \cup {[BaseMetric EXCEPT !.Buckets = v] : v \in BucketLists}
  \cup {[BaseMetric EXCEPT !.Objectives = v] :
          v \in {NilMap, MakeMap("0.5" :> "0.05")}}

InitFields ==
  /\ pc = "compare"
  /\ oldMetric \in FieldValues
  /\ newMetric \in FieldValues
  /\ changes = None
  /\ m = None /\ key = None /\ metrics = None /\ idx = None /\ metricMap = None
  /\ oldMetrics = None /\ newMetrics = None /\ old = None /\ new = None
  /\ call = None /\ todo = None /\ diffs = None /\ heap = None /\ ret = None

\* The comparators run on the pair; the two label sets are enumerated in
\* any order.
CompareFields ==
  /\ pc = "compare"
  /\ \E newOrder \in Orders(Range(newMetric.Labels)),
        oldOrder \in Orders(Range(oldMetric.Labels)) :
       changes' = FieldChanges(oldMetric, newMetric, newOrder, oldOrder)
  /\ pc' = "compared"
  /\ UNCHANGED <<m, key, metrics, idx, metricMap, oldMetric, newMetric,
                 oldMetrics, newMetrics, old, new, call, todo, diffs, heap, ret>>

NextFields == CompareFields

SpecFields == InitFields /\ [][NextFields]_vars

\* Number of occurrences of x in the sequence s.
Count(x, s) == Cardinality({i \in DOMAIN s : s[i] = x})

\* t is a rearrangement of s: the same labels, each as many times.
IsPermutation(s, t) == \A x \in Range(s) \cup Range(t) : Count(x, s) = Count(x, t)

\* The descriptions of a change list that start with the given literal.
StartingWith(cs, literal) == {i \in DOMAIN cs : cs[i] # <<>> /\ Head(cs[i]) = literal}

\* A description that reports added and/or removed labels.
IsAddedRemoved(d) == d # <<>> /\ Head(d) \in {"Added labels: [", "Removed labels: ["}

\* C5 as stated: for a pair whose label lists differ as ordered lists, the
\* label description is the reordering one exactly when the new list is a
\* permutation of the old one, and an added/removed one in every other case.
C5_ReorderedIffPermutation ==
  (pc = "compared" /\ ~equalStringSlices(oldMetric.Labels, newMetric.Labels)) =>
    LET reordered == StartingWith(changes, "Labels reordered: [") # {}
        addedRemoved == \E i \in DOMAIN changes : IsAddedRemoved(changes[i])
    IN  /\ reordered <=> IsPermutation(oldMetric.Labels, newMetric.Labels)
        /\ ~reordered <=> addedRemoved

\* The entries of a map value; a nil map has none.
Entries(mp) == {<<k, mp.kv[k]>> : k \in DOMAIN mp.kv}

\* C9 as stated: "ConstLabels changed." is among the changes exactly when the
\* two constant-label maps differ in their key set or in some value, a record
\* without the map counting as the map with no keys.
C9_ConstLabelsIffEntriesDiffer ==
  pc = "compared" =>
    ((\E i \in DOMAIN changes : changes[i] = <<"ConstLabels changed.">>)
       <=> Entries(oldMetric.ConstLabels) # Entries(newMetric.ConstLabels))

(***************************************************************************)
(* Spec: compareMetrics (string-keyed program), run on a pair of loaded    *)
(* snapshots and then on the same pair with the arguments exchanged.       *)
(***************************************************************************)
\* The nil pointer / nil slice.
Nil == <<>>

\* Mutant of IterVar: one variable per loop, shared by all its iterations
\* (the loop-variable semantics of Go before 1.22).
IterVarShared(c, loop, name, k) == <<c, loop, name, <<>>>>

\* The address of the instance of variable name that the iteration of loop
\* visiting key k declares, in call c: each iteration has its own instance
\* (go.mod: go 1.24.4).
IterVar(c, loop, name, k) == <<c, loop, name, k>>

\* MetricDiff{...}
MetricDiff(k, type, oldPtr, newPtr, cs) ==
  [Key |-> k, Type |-> type, OldMetric |-> oldPtr, NewMetric |-> newPtr,
   Changes |-> cs]

\* Mutant of RangeNewBody: the else branch is missing, no Added diff is built.
RangeNewBodyNoAdded(ds, o, n, k, c, cs) ==
  IF k \in DOMAIN o /\ Len(cs) > 0
  THEN Append(ds, MetricDiff(k, "Updated",
                    <<c, "rangeNew", "if oldMetric", k>>,
                    IterVar(c, "rangeNew", "newMetric", k), cs))
  ELSE ds

\* The body of "for key, newMetric := range new" for key k: diffs after it.
\* cs is the change list of the matched pair.
RangeNewBody(ds, o, n, k, c, cs) ==
  IF k \in DOMAIN o
  THEN IF Len(cs) > 0
       THEN Append(ds, MetricDiff(k, "Updated",
                         <<c, "rangeNew", "if oldMetric", k>>,
                         IterVar(c, "rangeNew", "newMetric", k), cs))
       ELSE ds
  ELSE Append(ds, MetricDiff(k, "Added", Nil,
                    IterVar(c, "rangeNew", "newMetric", k), Nil))

\* Mutant of RangeOldBody: the "!exists" test is dropped.
RangeOldBodyNoExistsTest(ds, o, n, k, c) ==
  Append(ds, MetricDiff(k, "Removed",
               IterVar(c, "rangeOld", "oldMetric", k), Nil, Nil))

\* The body of "for key, oldMetric := range old" for key k: diffs after it.
RangeOldBody(ds, o, n, k, c) ==
  IF k \notin DOMAIN n
  THEN Append(ds, MetricDiff(k, "Removed",
                    IterVar(c, "rangeOld", "oldMetric", k), Nil, Nil))
  ELSE ds

\* The rearrangements of a slice.
Arrangements(ds) ==
  {[i \in DOMAIN ds |-> ds[p[i]]] : p \in Orders(DOMAIN ds)}

\* Mutant of SortSlice: the slice is returned as the loops built it.
SortSliceSkipped(ds) == {ds}

\* sort.Slice(diffs, func(i, j) { return diffs[i].Key < diffs[j].Key }): the
\* outcomes it can have.  The sort is not stable: elements with equal keys
\* may end in any order.
SortSlice(ds) ==
  {a \in Arrangements(ds) :
     \A i, j \in DOMAIN a : i < j => ~StrLess(a[j].Key, a[i].Key)}

\* The i-th metric identity of the snapshots: <<namespace, subsystem, name>>.
\* Their keys are "b", "a_b", "bb", "a_bb", ...
Identity(i) ==
  <<IF i % 2 = 0 THEN <<"a">> ELSE <<>>, <<>>, [j \in 1..((i + 1) \div 2) |-> "b"]>>

\* The field values the records of the snapshots take.
DiffPayloads ==
  { BaseMetric,
    [BaseMetric EXCEPT !.Type = <<"gauge">>, !.Labels = <<<<"b">>, <<"a">>>>,
                       !.Buckets = <<"NaN">>] }

WithIdentity(p, id) ==
  [p EXCEPT !.Namespace = id[1], !.Subsystem = id[2], !.Name = id[3]]

\* What loadMetrics returns for a document that holds the identities of D
\* with the field values p.
SnapshotOf(D, p) ==
  LET recs == {WithIdentity(p[i], Identity(i)) : i \in D}
  IN  [k \in {metricKey(r) : r \in recs} |-> CHOOSE r \in recs : metricKey(r) = k]

Snapshots ==
  UNION {{SnapshotOf(D, p) : p \in [D -> DiffPayloads]} : D \in SUBSET (1..NumKeys)}

Init ==
  /\ oldMetrics \in Snapshots
  /\ newMetrics \in Snapshots
  /\ call = 1
  /\ old = oldMetrics
  /\ new = newMetrics
  /\ pc = "rangeNew"
  /\ todo = DOMAIN newMetrics
  /\ diffs = Nil
  /\ heap = <<>>
  /\ ret = <<>>
  /\ m = None /\ key = None /\ metrics = None /\ idx = None /\ metricMap = None
  /\ oldMetric = None /\ newMetric = None /\ changes = None

\* One iteration of the first loop, over a key not yet visited.
RangeNew ==
  /\ pc = "rangeNew"
  /\ \E k \in todo :
       /\ todo' = todo \ {k}
       /\ IF k \in DOMAIN old
          THEN /\ \E newOrder \in Orders(Range(new[k].Labels)),
                     oldOrder \in Orders(Range(old[k].Labels)) :
                    diffs' = RangeNewBody(diffs, old, new, k, call,
                               FieldChanges(old[k], new[k], newOrder, oldOrder))
               /\ heap' = MapAssign(
                            MapAssign(heap, IterVar(call, "rangeNew", "newMetric", k),
                                      new[k]),
                            <<call, "rangeNew", "if oldMetric", k>>, old[k])
          ELSE /\ diffs' = RangeNewBody(diffs, old, new, k, call, Nil)
               /\ heap' = MapAssign(heap, IterVar(call, "rangeNew", "newMetric", k),
                                    new[k])
  /\ UNCHANGED <<pc, m, key, metrics, idx, metricMap, oldMetric, newMetric,
                 changes, oldMetrics, newMetrics, old, new, call, ret>>

\* The first loop has visited every key of new.
RangeNewEnd ==
  /\ pc = "rangeNew"
  /\ todo = {}
  /\ pc' = "rangeOld"
  /\ todo' = DOMAIN old
  /\ UNCHANGED <<m, key, metrics, idx, metricMap, oldMetric, newMetric, changes,
                 oldMetrics, newMetrics, old, new, call, diffs, heap, ret>>

\* One iteration of the second loop.
RangeOld ==
  /\ pc = "rangeOld"
  /\ \E k \in todo :
       /\ todo' = todo \ {k}
       /\ diffs' = RangeOldBody(diffs, old, new, k, call)
       /\ heap' = MapAssign(heap, IterVar(call, "rangeOld", "oldMetric", k), old[k])
  /\ UNCHANGED <<pc, m, key, metrics, idx, metricMap, oldMetric, newMetric,
                 changes, oldMetrics, newMetrics, old, new, call, ret>>

RangeOldEnd ==
  /\ pc = "rangeOld"
  /\ todo = {}
  /\ pc' = "sort"
  /\ UNCHANGED <<m, key, metrics, idx, metricMap, oldMetric, newMetric, changes,
                 oldMetrics, newMetrics, old, new, call, todo, diffs, heap, ret>>

SortDiffs ==
  /\ pc = "sort"
  /\ diffs' \in SortSlice(diffs)
  /\ pc' = "return"
  /\ UNCHANGED <<m, key, metrics, idx, metricMap, oldMetric, newMetric, changes,
                 oldMetrics, newMetrics, old, new, call, todo, heap, ret>>

\* compareMetrics(oldMetrics, newMetrics) returns; compareMetrics(newMetrics,
\* oldMetrics) is called.
ReturnFirst ==
  /\ pc = "return"
  /\ call = 1
  /\ ret' = Append(ret, diffs)
  /\ call' = 2
  /\ old' = newMetrics
  /\ new' = oldMetrics
  /\ todo' = DOMAIN oldMetrics
  /\ diffs' = Nil
  /\ pc' = "rangeNew"
  /\ UNCHANGED <<m, key, metrics, idx, metricMap, oldMetric, newMetric, changes,
                 oldMetrics, newMetrics, heap>>

ReturnSecond ==
  /\ pc = "return"
  /\ call = 2
  /\ ret' = Append(ret, diffs)
  /\ pc' = "done"
  /\ UNCHANGED <<m, key, metrics, idx, metricMap, oldMetric, newMetric, changes,
                 oldMetrics, newMetrics, old, new, call, todo, diffs, heap>>

Next ==
  \/ RangeNew
  \/ RangeNewEnd
  \/ RangeOld
  \/ RangeOldEnd
  \/ SortDiffs
  \/ ReturnFirst
  \/ ReturnSecond

Spec == Init /\ [][Next]_vars

(***************************************************************************)
(* Properties of compareMetrics (string-keyed program)                     *)
(***************************************************************************)
\* The arguments of call c.
ArgOld(c) == IF c = 1 THEN oldMetrics ELSE newMetrics
ArgNew(c) == IF c = 1 THEN newMetrics ELSE oldMetrics

\* The positions of the diffs of ds for key k; the keys of ds with a tag.
DiffsFor(ds, k) == {i \in DOMAIN ds : ds[i].Key = k}
KeysTagged(ds, type) == {ds[i].Key : i \in {j \in DOMAIN ds : ds[j].Type = type}}

\* Some field comparator produces a description for the pair.
ProducesChange(o, n) ==
  \E newOrder \in Orders(Range(n.Labels)), oldOrder \in Orders(Range(o.Labels)) :
    FieldChanges(o, n, newOrder, oldOrder) # <<>>

\* C1: in what each of the two calls returned, every key of old and new occurs at most once:
\* once tagged Added when only in new, once tagged Removed when only in old,
\* once tagged Updated when in both and some comparator produces a
\* description, not at all when in both and none does; no other key occurs.
C1_Partition ==
  pc = "done" => \A c \in DOMAIN ret :
    LET o == ArgOld(c)
        n == ArgNew(c)
        ds == ret[c]
        tags(k) == {ds[i].Type : i \in DiffsFor(ds, k)}
    IN  /\ \A i \in DOMAIN ds : ds[i].Key \in DOMAIN o \cup DOMAIN n
        /\ \A k \in DOMAIN o \cup DOMAIN n :
             /\ Cardinality(DiffsFor(ds, k)) <= 1
             /\ (k \in DOMAIN n \ DOMAIN o) =>
                  Cardinality(DiffsFor(ds, k)) = 1 /\ tags(k) = {"Added"}
             /\ (k \in DOMAIN o \ DOMAIN n) =>
                  Cardinality(DiffsFor(ds, k)) = 1 /\ tags(k) = {"Removed"}
             /\ (k \in DOMAIN o \cap DOMAIN n /\ ProducesChange(o[k], n[k])) =>
                  Cardinality(DiffsFor(ds, k)) = 1 /\ tags(k) = {"Updated"}
             /\ (k \in DOMAIN o \cap DOMAIN n /\ ~ProducesChange(o[k], n[k])) =>
                  DiffsFor(ds, k) = {}

\* C1 witness: a call returned an Added, a Removed and an Updated diff, and
\* for other snapshots a call left a key of both out as unchanged.
C1_Witness ==
  /\ pc = "done"
  /\ \/ /\ KeysTagged(ret[1], "Added") # {}
        /\ KeysTagged(ret[1], "Removed") # {}
        /\ KeysTagged(ret[1], "Updated") # {}
     \/ /\ KeysTagged(ret[1], "Added") # {}
        /\ KeysTagged(ret[1], "Removed") # {}
        /\ \E k \in DOMAIN oldMetrics \cap DOMAIN newMetrics : DiffsFor(ret[1], k) = {}

\* What a diff says, without its references.
View(d) == <<d.Key, d.Type, d.Changes>>

\* The keys of a set in ascending order.
SortedKeys(S) == SortStrings(CHOOSE o \in Orders(S) : TRUE)

\* The sequence a call on (o, n) returns when every map and label set is
\* enumerated in ascending order.
RECURSIVE InOrder(_, _, _)
InOrder(ks, o, n) ==
  IF ks = <<>> THEN <<>>
  ELSE LET k == Head(ks)
           rest == InOrder(Tail(ks), o, n)
       IN  IF k \notin DOMAIN o THEN <<<<k, "Added", Nil>>>> \o rest
           ELSE IF k \notin DOMAIN n THEN <<<<k, "Removed", Nil>>>> \o rest
           ELSE LET cs == FieldChanges(o[k], n[k],
                            SortedKeys(Range(n[k].Labels)),
                            SortedKeys(Range(o[k].Labels)))
                IN  IF cs # <<>> THEN <<<<k, "Updated", cs>>>> \o rest ELSE rest

\* C2: what each of the two calls returned is in strictly ascending order of key, and its
\* keys, tags and change lists are those of the run that enumerates every map
\* and label set in ascending order, whatever order this run enumerated them
\* in.
C2_SortedAndOrderIndependent ==
  pc = "done" => \A c \in DOMAIN ret :
    LET ds == ret[c]
    IN  /\ \A i, j \in DOMAIN ds : i < j => StrLess(ds[i].Key, ds[j].Key)
        /\ [i \in DOMAIN ds |-> View(ds[i])]
             = InOrder(SortedKeys(DOMAIN ArgOld(c) \cup DOMAIN ArgNew(c)),
                       ArgOld(c), ArgNew(c))

\* C2 witness: the first call returned two diffs in ascending order, one with
\* two added labels in ascending order, and the loops of the second call have
\* appended two diffs in descending order of key, which the sort is to undo.
C2_Witness ==
  /\ pc = "sort"
  /\ call = 2
  /\ Len(ret[1]) = 2
  /\ StrLess(ret[1][1].Key, ret[1][2].Key)
  /\ \E i \in DOMAIN ret[1] :
       \E d \in DOMAIN ret[1][i].Changes :
         ret[1][i].Changes[d] =
           <<"Added labels: [", "BQ", "a", "BQ", ", ", "BQ", "b", "BQ", "].">>
  /\ Len(diffs) = 2
  /\ StrLess(diffs[2].Key, diffs[1].Key)

\* C3 as stated: comparing a snapshot with itself returns no diff.
C3_SelfCompareEmpty ==
  (Len(ret) >= 1 /\ oldMetrics = newMetrics) => ret[1] = <<>>

\* C4: the keys tagged Added by compareMetrics(A, B) are the keys tagged
\* Removed by compareMetrics(B, A), and the keys tagged Removed by the first
\* are the keys tagged Added by the second.
C4_AddRemoveSymmetry ==
  pc = "done" =>
    /\ KeysTagged(ret[1], "Added") = KeysTagged(ret[2], "Removed")
    /\ KeysTagged(ret[1], "Removed") = KeysTagged(ret[2], "Added")

\* C4 witness: both calls returned, with an Added and a Removed key each and
\* a key of both snapshots.
C4_Witness ==
  /\ pc = "done"
  /\ KeysTagged(ret[1], "Added") # {}
  /\ KeysTagged(ret[1], "Removed") # {}
  /\ KeysTagged(ret[2], "Added") = KeysTagged(ret[1], "Removed")
  /\ DOMAIN oldMetrics \cap DOMAIN newMetrics # {}

\* The references of the diffs of ds are right for a call on (o, n).
RefsRight(ds, o, n) ==
  \A i \in DOMAIN ds :
    LET d == ds[i]
    IN  /\ d.OldMetric # Nil <=> d.Type \in {"Removed", "Updated"}
        /\ d.NewMetric # Nil <=> d.Type \in {"Added", "Updated"}
        /\ d.OldMetric # Nil => heap[d.OldMetric] = o[d.Key]
        /\ d.NewMetric # Nil => heap[d.NewMetric] = n[d.Key]

\* C8: in every diff built so far or returned, the old reference is present
\* exactly for Removed and Updated and the new one exactly for Added and
\* Updated, and a present reference points to the record its own key has in
\* the old, respectively new, snapshot of that call.
C8_ReferencesOwnRecord ==
  /\ pc = "done" => \A c \in DOMAIN ret : RefsRight(ret[c], ArgOld(c), ArgNew(c))
  /\ pc \in {"rangeNew", "rangeOld", "sort", "return"} => RefsRight(diffs, old, new)

\* C8 witness: a call returned two Added diffs and an Updated one whose
\* references point to different records.
C8_Witness ==
  /\ pc = "done"
  /\ \E i, j \in DOMAIN ret[1] :
       /\ i # j
       /\ ret[1][i].Type = "Added" /\ ret[1][j].Type = "Added"
       /\ heap[ret[1][i].NewMetric] # heap[ret[1][j].NewMetric]
  /\ \E i \in DOMAIN ret[2] :
       /\ ret[2][i].Type = "Updated"
       /\ heap[ret[2][i].OldMetric] # heap[ret[2][i].NewMetric]

(***************************************************************************)
(* SpecStruct: the struct-keyed program of src/main.go.  Its snapshots are *)
(* keyed by MetricKey{Namespace, Subsystem, Name} and its diffs are sorted *)
(* by MetricKey.String().                                                  *)
(***************************************************************************)
\* type MetricKey struct
MetricKey(namespace, subsystem, name) ==
  [Namespace |-> namespace, Subsystem |-> subsystem, Name |-> name]

\* func (m MetricKey) String() string
MetricKeyString(k) ==
  LET parts1 == IF k.Namespace # <<>> THEN <<k.Namespace>> ELSE <<>>
      parts2 == IF k.Subsystem # <<>> THEN Append(parts1, k.Subsystem)
                                      ELSE parts1
      parts3 == Append(parts2, k.Name)
  IN  Join(parts3, <<"_">>)

\* type Metric struct of src/main.go, the zero value but for identity and help.
StructMetric(k, help) ==
  [Name |-> k.Name, Namespace |-> k.Namespace, Subsystem |-> k.Subsystem,
   Help |-> help, Type |-> <<>>, StabilityLevel |-> <<>>, Labels |-> <<>>,
   Buckets |-> <<>>]

\* The change list of a matched pair in src/main.go.
StructFieldChanges(o, n) ==
  LET c1 == IF o.Help # n.Help THEN << <<"Help text changed">> >> ELSE <<>>
      c2 == IF o.Type # n.Type
            THEN Append(c1, <<"Type changed from ">> \o o.Type \o <<" to ">> \o n.Type)
            ELSE c1
      c3 == IF o.StabilityLevel # n.StabilityLevel
            THEN Append(c2, <<"Stability level changed from ">> \o o.StabilityLevel
                              \o <<" to ">> \o n.StabilityLevel)
            ELSE c2
      c4 == IF o.Namespace # n.Namespace
            THEN Append(c3, <<"Namespace changed from '">> \o o.Namespace
                              \o <<"' to '">> \o n.Namespace \o <<"'">>)
            ELSE c3
      c5 == IF ~equalStringSlices(o.Labels, n.Labels)
            THEN Append(c4, <<"Labels changed">>) ELSE c4
      c6 == IF ~equalFloat64Slices(o.Buckets, n.Buckets)
            THEN Append(c5, <<"Buckets changed">>) ELSE c5
  IN  c6

\* The body of the first loop of src/main.go for key k: diffs after it.
StructRangeNewBody(ds, o, n, k) ==
  IF k \in DOMAIN o
  THEN LET cs == StructFieldChanges(o[k], n[k])
       IN  IF Len(cs) > 0
           THEN Append(ds, MetricDiff(k, "Modified",
                             <<1, "rangeNew", "if oldMetric", k>>,
                             IterVar(1, "rangeNew", "newMetric", k), cs))
           ELSE ds
  ELSE Append(ds, MetricDiff(k, "Added", Nil,
                    IterVar(1, "rangeNew", "newMetric", k), Nil))

\* The body of the second loop of src/main.go for key k: diffs after it.
StructRangeOldBody(ds, o, n, k) ==
  IF k \notin DOMAIN n
  THEN Append(ds, MetricDiff(k, "Removed",
                    IterVar(1, "rangeOld", "oldMetric", k), Nil, Nil))
  ELSE ds

\* sort.Slice(diffs, ... diffs[i].Key.String() < diffs[j].Key.String()): the
\* outcomes it can have; diffs whose keys print alike may end in any order.
StructSortSlice(ds) ==
  {a \in Arrangements(ds) :
     \A i, j \in DOMAIN a :
       i < j => ~StrLess(MetricKeyString(a[j].Key), MetricKeyString(a[i].Key))}

\* The identities of the records; the first two print as "a_b".
StructIdentities ==
  { MetricKey(<<"a">>, <<>>, <<"b">>),
    MetricKey(<<>>, <<"a">>, <<"b">>),
    MetricKey(<<>>, <<>>, <<"b">>) }

\* What loadMetrics of src/main.go returns: each record under the MetricKey
\* of its own namespace, subsystem and name.
StructSnapshots ==
  UNION {[D -> {<<"x">>, <<"y">>}] : D \in SUBSET StructIdentities}

StructSnapshot(h) == [k \in DOMAIN h |-> StructMetric(k, h[k])]

InitStruct ==
  /\ oldMetrics \in {StructSnapshot(h) : h \in StructSnapshots}
  /\ newMetrics \in {StructSnapshot(h) : h \in StructSnapshots}
  /\ old = oldMetrics
  /\ new = newMetrics
  /\ pc = "rangeNew"
  /\ todo = DOMAIN newMetrics
  /\ diffs = Nil
  /\ heap = <<>>
  /\ ret = None
  /\ call = None
  /\ m = None /\ key = None /\ metrics = None /\ idx = None /\ metricMap = None
  /\ oldMetric = None /\ newMetric = None /\ changes = None

StructRangeNew ==
  /\ pc = "rangeNew"
  /\ \E k \in todo :
       /\ todo' = todo \ {k}
       /\ diffs' = StructRangeNewBody(diffs, old, new, k)
       /\ heap' = IF k \in DOMAIN old
                  THEN MapAssign(
                         MapAssign(heap, IterVar(1, "rangeNew", "newMetric", k), new[k]),
                         <<1, "rangeNew", "if oldMetric", k>>, old[k])
                  ELSE MapAssign(heap, IterVar(1, "rangeNew", "newMetric", k), new[k])
  /\ UNCHANGED <<pc, m, key, metrics, idx, metricMap, oldMetric, newMetric,
                 changes, oldMetrics, newMetrics, old, new, call, ret>>

StructRangeNewEnd ==
  /\ pc = "rangeNew"
  /\ todo = {}
  /\ pc' = "rangeOld"
  /\ todo' = DOMAIN old
  /\ UNCHANGED <<m, key, metrics, idx, metricMap, oldMetric, newMetric, changes,
                 oldMetrics, newMetrics, old, new, call, diffs, heap, ret>>

StructRangeOld ==
  /\ pc = "rangeOld"
  /\ \E k \in todo :
       /\ todo' = todo \ {k}
       /\ diffs' = StructRangeOldBody(diffs, old, new, k)
       /\ heap' = MapAssign(heap, IterVar(1, "rangeOld", "oldMetric", k), old[k])
  /\ UNCHANGED <<pc, m, key, metrics, idx, metricMap, oldMetric, newMetric,
                 changes, oldMetrics, newMetrics, old, new, call, ret>>

StructRangeOldEnd ==
  /\ pc = "rangeOld"
  /\ todo = {}
  /\ pc' = "sort"
  /\ UNCHANGED <<m, key, metrics, idx, metricMap, oldMetric, newMetric, changes,
                 oldMetrics, newMetrics, old, new, call, todo, diffs, heap, ret>>

StructSortDiffs ==
  /\ pc = "sort"
  /\ diffs' \in StructSortSlice(diffs)
  /\ pc' = "return"
  /\ UNCHANGED <<m, key, metrics, idx, metricMap, oldMetric, newMetric, changes,
                 oldMetrics, newMetrics, old, new, call, todo, heap, ret>>

StructReturn ==
  /\ pc = "return"
  /\ ret' = diffs
  /\ pc' = "done"
  /\ UNCHANGED <<m, key, metrics, idx, metricMap, oldMetric, newMetric, changes,
                 oldMetrics, newMetrics, old, new, call, todo, diffs, heap>>

NextStruct ==
  \/ StructRangeNew
  \/ StructRangeNewEnd
  \/ StructRangeOld
  \/ StructRangeOldEnd
  \/ StructSortDiffs
  \/ StructReturn

SpecStruct == InitStruct /\ [][NextStruct]_vars

\* C10 as stated: no two diffs of one output of the struct-keyed compareMetrics
\* have the same sort key string Key.String(), so the sort has no ties.
C10_SortKeysDistinct ==
  pc = "done" =>
    \A i, j \in DOMAIN ret :
      i # j => MetricKeyString(ret[i].Key) # MetricKeyString(ret[j].Key)

====
